---- MODULE Spec2Model ----
(***************************************************************************)
(* Extraction-decision and semantic chunking pipeline of yojna_khojna:     *)
(*   backend/src/data_pipeline/pdf_extractor.py                            *)
(*   backend/src/data_pipeline/document_chunker.py                         *)
(*   backend/src/main_pipeline.py                                          *)
(*                                                                         *)
(* A text is a sequence of one-character strings, so that len(), slicing,  *)
(* str.replace, str.strip and the regular expressions of the source act on *)
(* characters exactly as in Python.  Scans over a text are written as set  *)
(* comprehensions over its positions; recursion is kept for the short      *)
(* lists only (matches, pieces, chunks, pages).                            *)
(***************************************************************************)
EXTENDS Integers, Sequences, FiniteSets, TLC

(***************************************************************************)
(* Generic helpers on texts                                                *)
(***************************************************************************)
Rep(c, n) == [i \in 1..n |-> c]

\* str.isspace() / regex \s on the characters of the model alphabet
IsSpace(c) == c \in {" ", "\n", "\t"}

IsDigit(c) == c \in {"0", "1", "2", "3", "4", "5", "6", "7", "8", "9"}

AllSpace(t) == \A i \in 1..Len(t) : IsSpace(t[i])

\* text[i-1:] starts with pat (positions are 1-based here)
MatchAt(t, i, pat) ==
    /\ i >= 1
    /\ i + Len(pat) - 1 <= Len(t)
    /\ \A k \in 1..Len(pat) : t[i + k - 1] = pat[k]

\* the same for a non-empty pat, the first character looked at first
StartsAt(t, i, pat) == t[i] = pat[1] /\ MatchAt(t, i, pat)

Occurrences(t, pat) == {i \in 1..(Len(t) - Len(pat) + 1) : StartsAt(t, i, pat)}

Contains(t, pat) == \E i \in 1..(Len(t) - Len(pat) + 1) : StartsAt(t, i, pat)

MinOf(S) == CHOOSE x \in S : \A y \in S : x <= y

\* the elements of a small set of integers in increasing order
SortedSeq(S) ==
    [i \in 1..Cardinality(S) |-> CHOOSE x \in S : Cardinality({y \in S : y < x}) = i - 1]

\* the leftmost non-overlapping occurrences of pat at or after position from,
\* as re.sub, re.split, re.finditer and str.replace scan them
RECURSIVE ScanFrom(_, _, _)
ScanFrom(occ, from, n) ==
    LET rest == {i \in occ : i >= from}
    IN  IF rest = {} THEN {}
        ELSE LET m == MinOf(rest) IN {m} \cup ScanFrom(occ, m + n, n)

Matches(t, pat) ==
    IF Len(pat) = 1 THEN Occurrences(t, pat)
    ELSE ScanFrom(Occurrences(t, pat), 1, Len(pat))

\* str.strip()
Strip(t) ==
    IF AllSpace(t) THEN <<>>
    ELSE LET n  == Len(t)
             lo == CHOOSE i \in 1..n :
                       ~IsSpace(t[i]) /\ \A k \in 1..(i - 1) : IsSpace(t[k])
             hi == IF ~IsSpace(t[n]) THEN n
                   ELSE CHOOSE i \in 1..n :
                            ~IsSpace(t[i]) /\ \A k \in (i + 1)..n : IsSpace(t[k])
         IN  SubSeq(t, lo, hi)

\* str.replace(old, new): every leftmost non-overlapping occurrence
RECURSIVE ReplaceFrom(_, _, _, _, _)
ReplaceFrom(t, ms, k, old, new) ==
    \* ms: sorted match positions, k: next match to replace
    LET start == IF k = 1 THEN 1 ELSE ms[k - 1] + Len(old)
    IN  IF k > Len(ms) THEN SubSeq(t, start, Len(t))
        ELSE SubSeq(t, start, ms[k] - 1) \o new \o ReplaceFrom(t, ms, k + 1, old, new)

Replace(t, old, new) ==
    IF old = <<>> \/ ~Contains(t, old) THEN t
    ELSE ReplaceFrom(t, SortedSeq(Matches(t, old)), 1, old, new)

RECURSIVE Concat(_)
Concat(ss) == IF ss = <<>> THEN <<>> ELSE Head(ss) \o Concat(Tail(ss))

\* str(n) for n >= 0
RECURSIVE Str(_)
Str(n) ==
    LET d == <<"0", "1", "2", "3", "4", "5", "6", "7", "8", "9">>
    IN  IF n < 10 THEN <<d[n + 1]>> ELSE Str(n \div 10) \o <<d[(n % 10) + 1]>>

\* sep.join(parts)
RECURSIVE Join(_, _)
Join(parts, sep) ==
    IF parts = <<>> THEN <<>>
    ELSE IF Len(parts) = 1 THEN parts[1]
    ELSE parts[1] \o sep \o Join(Tail(parts), sep)

(***************************************************************************)
(* document_chunker.py: configuration and patterns                         *)
(***************************************************************************)
CHUNK_SIZE == 1000

CHUNK_OVERLAP == 250

SECTION_BREAK ==
    <<"_", "_", "S", "E", "C", "T", "I", "O", "N", "_", "B", "R", "E", "A", "K", "_", "_">>

\* priority order: section breaks, paragraphs, lines, sentences, ", ", " ", ""
SEPARATORS ==
    << SECTION_BREAK,
       <<"\n", "\n">>,
       <<"\n">>,
       <<".", " ">>, <<"?", " ">>, <<"!", " ">>,
       <<",", " ">>,
       <<" ">>,
       <<>> >>

TABLE_START == <<"[", "T", "A", "B", "L", "E", "_", "S", "T", "A", "R", "T", ":">>

TABLE_END == <<"[", "T", "A", "B", "L", "E", "_", "E", "N", "D", "]">>

\* the keyword of SECTION_HEADER_PATTERN_EN
KEYWORD_EN == <<"S", "e", "c", "t", "i", "o", "n">>

\* the keyword of SECTION_HEADER_PATTERN_HI: three code points, KHA + ANUSVARA + DDA
KEYWORD_HI == <<"KHA", "ANUSVARA", "DDA">>

\* f"__TABLE_{uuid.uuid4().hex[:8]}__"
Placeholder(hex8) == <<"_", "_", "T", "A", "B", "L", "E", "_">> \o hex8 \o <<"_", "_">>

(***************************************************************************)
(* TABLE_PATTERN  (\[TABLE_START:.*?\]\n*.*?\n*^\[TABLE_END\])             *)
(* with re.MULTILINE | re.DOTALL.  A match starting at i takes the first   *)
(* "]" after the start tag and then runs to the first [TABLE_END] that     *)
(* stands at the start of a line.  The result is <<start, end>> (end       *)
(* inclusive), or <<>> when no match starts at i.                          *)
(***************************************************************************)
TableMatchAt(t, i) ==
    LET n  == Len(t)
        js == {j \in (i + Len(TABLE_START))..n : t[j] = "]"}
    IN  IF ~MatchAt(t, i, TABLE_START) \/ js = {} THEN <<>>
        ELSE LET j  == MinOf(js)
                 ks == {k \in Occurrences(t, TABLE_END) : k >= j + 1 /\ t[k - 1] = "\n"}
             IN  IF ks = {} THEN <<>>
                 ELSE <<i, MinOf(ks) + Len(TABLE_END) - 1>>

\* TABLE_PATTERN.finditer: the leftmost non-overlapping matches from position from
RECURSIVE TableSpansFrom(_, _)
TableSpansFrom(t, from) ==
    LET starts == {i \in Occurrences(t, TABLE_START) : i >= from /\ TableMatchAt(t, i) # <<>>}
    IN  IF starts = {} THEN <<>>
        ELSE LET m == TableMatchAt(t, MinOf(starts))
             IN  <<m>> \o TableSpansFrom(t, m[2] + 1)

TableSpans(t) == TableSpansFrom(t, 1)

\* placeholder_map[placeholder] = table_content on an insertion-ordered dict,
\* kept as a sequence of <<key, value>>
DictSet(d, key, val) ==
    IF \E k \in 1..Len(d) : d[k][1] = key
    THEN [k \in 1..Len(d) |-> IF d[k][1] = key THEN <<key, val>> ELSE d[k]]
    ELSE Append(d, <<key, val>>)

\* TABLE_PATTERN.sub(replace_table, text): the k-th match gets the k-th token
RECURSIVE SubTables(_, _, _, _)
SubTables(t, spans, k, hexes) ==
    LET start == IF k = 1 THEN 1 ELSE spans[k - 1][2] + 1
    IN  IF k > Len(spans) THEN SubSeq(t, start, Len(t))
        ELSE SubSeq(t, start, spans[k][1] - 1) \o Placeholder(hexes[k])
                 \o SubTables(t, spans, k + 1, hexes)

RECURSIVE TableMap(_, _, _, _)
TableMap(t, spans, k, hexes) ==
    IF k = 0 THEN <<>>
    ELSE DictSet(TableMap(t, spans, k - 1, hexes),
                 Placeholder(hexes[k]), SubSeq(t, spans[k][1], spans[k][2]))

(***************************************************************************)
(* combined_pattern of _preprocess_text, re.MULTILINE:                     *)
(*   ((?:^|\n\n))\s*(?:(Section\s+\d+(?:\.\d+)*\.\s+.*?)|(KW_HI ...))(?=\n)*)
(* The keyword stands at h.  "^" matches after any newline, and \s* eats   *)
(* the white space up to the keyword, so the prefix ((?:^|\n\n))\s* matches*)
(* iff the run of white space before h starts the text or holds a newline. *)
(***************************************************************************)
\* first position >= i whose character is not white space (Len+1 if none)
SkipSpace(t, i) ==
    LET n == Len(t)
    IN  IF \A k \in i..n : IsSpace(t[k]) THEN n + 1
        ELSE CHOOSE k \in i..n : ~IsSpace(t[k]) /\ \A m \in i..(k - 1) : IsSpace(t[m])

\* first position >= i whose character is neither a digit nor "." (Len+1 if none)
SkipLabel(t, i) ==
    LET n    == Len(t)
        In(c) == IsDigit(c) \/ c = "."
    IN  IF \A k \in i..n : In(t[k]) THEN n + 1
        ELSE CHOOSE k \in i..n : ~In(t[k]) /\ \A m \in i..(k - 1) : In(t[m])

HeaderPrefixOk(t, h) ==
    \/ \A k \in 1..(h - 1) : IsSpace(t[k])
    \/ \E k \in 1..(h - 1) : t[k] = "\n" /\ \A m \in k..(h - 1) : IsSpace(t[m])

\* the end (exclusive) of the header text whose keyword kw stands at h, 0 if the
\* pattern does not match there: kw \s+ \d+(\.\d+)*\. \s+ .*? (?=\n)
HeaderEndKw(t, h, kw) ==
    LET n  == Len(t)
        a  == h + Len(kw)                  \* after the keyword
        b  == SkipSpace(t, a)              \* the numeric label starts at b
        r  == SkipLabel(t, b)              \* and ends before r
        b2 == SkipSpace(t, r)              \* the title starts at b2
        labelOk == /\ b > a /\ b <= n /\ IsDigit(t[b])
                   /\ r <= n /\ t[r - 1] = "." /\ IsSpace(t[r])
                   /\ \A k \in b..(r - 2) : ~(t[k] = "." /\ t[k + 1] = ".")
        after  == {e \in b2..n : t[e] = "\n"}       \* lazy .*? stops at the first
        inside == {e \in (r + 1)..(b2 - 1) : t[e] = "\n"} \* else \s+ gives back
    IN  IF ~MatchAt(t, h, kw) \/ ~labelOk THEN 0
        ELSE IF after # {} THEN MinOf(after)
        ELSE IF inside # {} THEN CHOOSE e \in inside : \A x \in inside : x <= e
        ELSE 0

HeaderEnd(t, h) ==
    IF MatchAt(t, h, KEYWORD_EN) THEN HeaderEndKw(t, h, KEYWORD_EN)
    ELSE IF MatchAt(t, h, KEYWORD_HI) THEN HeaderEndKw(t, h, KEYWORD_HI)
    ELSE 0

HeaderCandidates(t) ==
    {h \in Occurrences(t, KEYWORD_EN) \cup Occurrences(t, KEYWORD_HI) :
        HeaderPrefixOk(t, h) /\ HeaderEnd(t, h) # 0}

\* combined_pattern.finditer: the header starts, leftmost first, none inside an
\* earlier match
RECURSIVE HeadersFrom(_, _, _)
HeadersFrom(t, cands, from) ==
    LET rest == {h \in cands : h >= from}
    IN  IF rest = {} THEN <<>>
        ELSE LET h == MinOf(rest)
             IN  <<h>> \o HeadersFrom(t, cands, HeaderEnd(t, h))

HeaderStarts(t) == HeadersFrom(t, HeaderCandidates(t), 1)

\* the loop of lines 79-99: everything is copied, and the marker goes in
\* immediately before each header text
RECURSIVE InsertBreaks(_, _, _)
InsertBreaks(t, hs, k) ==
    LET start == IF k = 1 THEN 1 ELSE hs[k - 1]
    IN  IF k > Len(hs) THEN SubSeq(t, start, Len(t))
        ELSE SubSeq(t, start, hs[k] - 1) \o SECTION_BREAK \o InsertBreaks(t, hs, k + 1)

\* _preprocess_text: hexes are the values uuid4().hex[:8] returns, in call order
PreprocessText(text, hexes) ==
    LET spans     == TableSpans(text)
        processed == SubTables(text, spans, 1, hexes)
    IN  [text |-> InsertBreaks(processed, HeaderStarts(processed), 1),
         map  |-> TableMap(text, spans, Len(spans), hexes)]

\* _postprocess_chunks: one chunk through the replacements and strip()
RECURSIVE RestoreTables(_, _, _)
RestoreTables(chunk, map, k) ==
    IF k > Len(map) THEN chunk
    ELSE RestoreTables(Replace(chunk, map[k][1], map[k][2]), map, k + 1)

CleanChunk(chunk, map) == Strip(Replace(RestoreTables(chunk, map, 1), SECTION_BREAK, <<>>))

\* a variant that keeps the chunks of which nothing is left
PostprocessChunksKeepsEmpty(chunks, map) ==
    [k \in 1..Len(chunks) |-> CleanChunk(chunks[k], map)]

PostprocessChunks(chunks, map) ==
    SelectSeq([k \in 1..Len(chunks) |-> CleanChunk(chunks[k], map)], LAMBDA c : c # <<>>)

(***************************************************************************)
(* RecursiveCharacterTextSplitter(chunk_size=CHUNK_SIZE,                   *)
(*     chunk_overlap=CHUNK_OVERLAP, length_function=len,                   *)
(*     is_separator_regex=False, separators=SEPARATORS)                    *)
(* with the library defaults keep_separator=True, strip_whitespace=True.   *)
(*                                                                         *)
(* With keep_separator=True every separator stays at the head of the piece *)
(* that follows it and the pieces are joined back with "", so a piece and  *)
(* a merged chunk are both slices text[a..b] of the page text.  The        *)
(* splitter is therefore computed on positions: a list of pieces is the    *)
(* sorted list of their start positions ("cuts") inside a window lo..hi,   *)
(* and a chunk is a span <<a, b>>.                                         *)
(***************************************************************************)
OccIn(t, lo, hi, pat) == {i \in lo..(hi - Len(pat) + 1) : StartsAt(t, i, pat)}

\* re.search(re.escape(pat), text[lo..hi])
FoundIn(t, lo, hi, pat) == \E i \in lo..(hi - Len(pat) + 1) : StartsAt(t, i, pat)

\* _split_text_with_regex(text[lo..hi], re.escape(sep), True), empty pieces dropped
CutsIn(t, lo, hi, sep) ==
    IF hi < lo THEN <<>>
    ELSE IF sep = <<>> THEN [i \in 1..(hi - lo + 1) |-> lo + i - 1]
    ELSE IF Len(sep) = 1 THEN SortedSeq({lo} \cup OccIn(t, lo, hi, sep))
    ELSE SortedSeq({lo} \cup ScanFrom(OccIn(t, lo, hi, sep), lo, Len(sep)))

\* the position after the last character of piece k
PieceEnd(cuts, k, hi) == IF k < Len(cuts) THEN cuts[k + 1] ELSE hi + 1

\* _join_docs: "".join(current_doc).strip(), None (here <<>>) when nothing is left
\* a variant of _join_docs that leaves out the strip(): the pieces as they are
JoinDocsUnstripped(t, a, b) == << <<a, b>> >>

JoinDocs(t, a, b) ==
    IF \A i \in a..b : IsSpace(t[i]) THEN <<>>
    ELSE LET lo == CHOOSE i \in a..b :
                       ~IsSpace(t[i]) /\ \A k \in a..(i - 1) : IsSpace(t[k])
             hi == IF ~IsSpace(t[b]) THEN b
                   ELSE CHOOSE i \in a..b :
                            ~IsSpace(t[i]) /\ \A k \in (i + 1)..b : IsSpace(t[k])
         IN  << <<lo, hi>> >>

\* a variant of the loop that pops every piece: no overlap is kept
KeepNothing(cuts, hi, s, j) == j

\* the while loop of _merge_splits: pieces are popped from the front of
\* current_doc until what is kept is no longer than the overlap and leaves
\* room for piece j.  total = cuts[j] - cuts[s] for a current_doc s..j-1.
KeepFrom(cuts, hi, s, j) ==
    LET Stop(x) == /\ cuts[j] - cuts[x] <= CHUNK_OVERLAP
                   /\ (PieceEnd(cuts, j, hi) - cuts[x] <= CHUNK_SIZE \/ cuts[j] - cuts[x] = 0)
    IN  CHOOSE x \in s..j : Stop(x) /\ (x = s \/ ~Stop(x - 1))

\* _merge_splits(pieces a..b, separator ""): current_doc holds the pieces
\* s..j0-1; the next chunk is closed at the first piece j that no longer fits
RECURSIVE MergeFrom(_, _, _, _, _, _)
MergeFrom(t, hi, cuts, b, s, j0) ==
    LET first == IF j0 > s THEN j0 ELSE s + 1      \* len(current_doc) > 0
        Over(j) == PieceEnd(cuts, j, hi) - cuts[s] > CHUNK_SIZE
        \* no piece is empty, so the chunk is full CHUNK_SIZE pieces on at the latest
        last  == IF b < s + CHUNK_SIZE THEN b ELSE s + CHUNK_SIZE
        full  == {j \in first..last : Over(j) /\ (j = first \/ ~Over(j - 1))}
    IN  IF s > b THEN <<>>
        ELSE IF full = {} THEN JoinDocs(t, cuts[s], PieceEnd(cuts, b, hi) - 1)
        ELSE LET j == CHOOSE x \in full : TRUE
             IN  JoinDocs(t, cuts[s], cuts[j] - 1)
                     \o MergeFrom(t, hi, cuts, b, KeepFrom(cuts, hi, s, j), j + 1)

MergeSplits(t, hi, cuts, a, b) == MergeFrom(t, hi, cuts, b, a, a)

\* _split_text(text[lo..hi], seps)
RECURSIVE SplitSpans(_, _, _, _)
RECURSIVE SplitPieces(_, _, _, _, _)
SplitPieces(t, hi, cuts, k0, newSeps) ==
    \* the for loop over the pieces from k0 on: pieces shorter than chunk_size
    \* are collected and merged, a longer one is split with the next separators
    LET m    == Len(cuts)
        bigs == {k \in k0..m : PieceEnd(cuts, k, hi) - cuts[k] >= CHUNK_SIZE}
    IN  IF k0 > m THEN <<>>
        ELSE IF bigs = {} THEN MergeSplits(t, hi, cuts, k0, m)
        ELSE LET nb == MinOf(bigs)
             IN  (IF nb > k0 THEN MergeSplits(t, cuts[nb] - 1, cuts, k0, nb - 1) ELSE <<>>)
                 \o (IF newSeps = <<>>
                     THEN << <<cuts[nb], PieceEnd(cuts, nb, hi) - 1>> >>
                     ELSE SplitSpans(t, cuts[nb], PieceEnd(cuts, nb, hi) - 1, newSeps))
                 \o SplitPieces(t, hi, cuts, nb + 1, newSeps)

\* the loop that picks the separator: the index of the first separator that is
\* "" or occurs in the text, 0 if there is none
RECURSIVE FirstSeparator(_, _, _, _, _)
FirstSeparator(t, lo, hi, seps, i) ==
    IF i > Len(seps) THEN 0
    ELSE IF seps[i] = <<>> \/ FoundIn(t, lo, hi, seps[i]) THEN i
    ELSE FirstSeparator(t, lo, hi, seps, i + 1)

SplitSpans(t, lo, hi, seps) ==
    LET idx   == FirstSeparator(t, lo, hi, seps, 1)
        sep   == IF idx = 0 THEN seps[Len(seps)] ELSE seps[idx]
        newSeps == IF idx = 0 \/ sep = <<>> THEN <<>>
                   ELSE SubSeq(seps, idx + 1, Len(seps))
    IN  SplitPieces(t, hi, CutsIn(t, lo, hi, sep), 1, newSeps)

\* text_splitter.split_text(text), as spans of text
SplitTextSpans(t) == SplitSpans(t, 1, Len(t), SEPARATORS)

SpanTexts(t, spans) == [k \in 1..Len(spans) |-> SubSeq(t, spans[k][1], spans[k][2])]

SplitText(t) == SpanTexts(t, SplitTextSpans(t))

(***************************************************************************)
(* pdf_extractor.py                                                        *)
(***************************************************************************)
MIN_TEXT_LENGTH_FOR_OCR_FALLBACK == 20

MIN_TABLE_ROWS_FOR_SIGNIFICANCE == 2

\* a cell that is None, and a row that is None (a row is a sequence of cells,
\* a cell a text)
NoneCell == <<"None">>

NoneRow == << <<"NoneRow">> >>

\* re.sub(r'\s+', ' ', s): every run of white space becomes one space
CollapseSpace(t) ==
    SelectSeq([i \in 1..Len(t) |->
                  IF ~IsSpace(t[i]) THEN t[i]
                  ELSE IF i = 1 \/ ~IsSpace(t[i - 1]) THEN " "
                  ELSE "drop"],
              LAMBDA c : c # "drop")

\* re.sub(r'\s+', ' ', str(cell)).strip(), and ' '.join(text.split())
NormalizeSpace(t) == Strip(CollapseSpace(t))

\* lines 38-50: None rows are skipped, cells cleaned, rows without text dropped
CleanRow(row) ==
    [i \in 1..Len(row) |-> IF row[i] = NoneCell THEN <<>> ELSE NormalizeSpace(row[i])]

\* a variant that keeps every row with a cell, blank or not
RowHasCell(row) == row # <<>>

RowHasText(row) == \E i \in 1..Len(row) : row[i] # <<>>

CleanTable(table_data) ==
    SelectSeq([k \in 1..Len(table_data) |->
                  IF table_data[k] = NoneRow THEN <<>> ELSE CleanRow(table_data[k])],
              RowHasText)

\* lines 56-61: the header row's length, else the longest row
NumCols(cleaned_table) ==
    IF cleaned_table = <<>> THEN 0
    ELSE IF Len(cleaned_table[1]) # 0 THEN Len(cleaned_table[1])
    ELSE CHOOSE n \in {Len(cleaned_table[k]) : k \in 1..Len(cleaned_table)} :
             \A k \in 1..Len(cleaned_table) : Len(cleaned_table[k]) <= n

\* line 72: pad with "" or cut to num_cols
PadRow(row, num_cols) ==
    [i \in 1..num_cols |-> IF i <= Len(row) THEN row[i] ELSE <<>>]

\* a variant of the row line without the outer pipes
RowLineBare(cells) == Join(cells, <<" ", "|", " ">>)

\* f"| {' | '.join(cells)} |"
RowLine(cells) == <<"|", " ">> \o Join(cells, <<" ", "|", " ">>) \o <<" ", "|">>

\* detect_and_extract_tables(table_data, context)
FormatTable(table_data, context) ==
    LET cleaned  == CleanTable(table_data)
        num_cols == NumCols(cleaned)
        padded   == [k \in 1..Len(cleaned) |-> PadRow(cleaned[k], num_cols)]
        lines    == << TABLE_START \o <<" ">> \o context \o <<"]">>,
                       RowLine(padded[1]),
                       RowLine([i \in 1..num_cols |-> <<"-", "-", "-">>]) >>
                    \o [k \in 1..(Len(padded) - 1) |-> RowLine(padded[k + 1])]
                    \o << TABLE_END >>
    IN  IF table_data = <<>>
           \/ \A k \in 1..Len(table_data) : table_data[k] = NoneRow \/ table_data[k] = <<>>
        THEN <<>>
        ELSE IF cleaned = <<>> \/ num_cols = 0 THEN <<>>
        ELSE Join(lines, <<"\n">>)

\* f"Page {page_num} - Table {idx+1}"
TableContext(page_num, n) ==
    <<"P", "a", "g", "e", " ">> \o Str(page_num)
        \o <<" ", "-", " ", "T", "a", "b", "l", "e", " ">> \o Str(n)

\* lines 131-146: the formatted tables of a page and whether one is significant
RECURSIVE TableTexts(_, _, _)
TableTexts(grids, page_num, k) ==
    IF k > Len(grids) THEN <<>>
    ELSE LET f == FormatTable(grids[k], TableContext(page_num, k))
         IN  (IF f # <<>> THEN <<f>> ELSE <<>>) \o TableTexts(grids, page_num, k + 1)

\* a variant that adds up the rows of the tables of the page
SignificantTablesFoundSummed(grids, page_num) ==
    /\ \E k \in 1..Len(grids) : FormatTable(grids[k], TableContext(page_num, k)) # <<>>
    /\ Len(Concat(grids)) >= MIN_TABLE_ROWS_FOR_SIGNIFICANCE

SignificantTablesFound(grids, page_num) ==
    \E k \in 1..Len(grids) :
        /\ FormatTable(grids[k], TableContext(page_num, k)) # <<>>
        /\ Len(grids[k]) >= MIN_TABLE_ROWS_FOR_SIGNIFICANCE

FormattedTablesText(grids, page_num) == Join(TableTexts(grids, page_num, 1), <<"\n", "\n">>)

\* a variant of the decision that also sends a text of exactly the threshold
\* length to OCR
UseOcrInclusive(cleaned_direct_text, significant_tables_found) ==
    Len(cleaned_direct_text) <= MIN_TEXT_LENGTH_FOR_OCR_FALLBACK /\ ~significant_tables_found

\* lines 149-152
UseOcr(cleaned_direct_text, significant_tables_found) ==
    Len(cleaned_direct_text) < MIN_TEXT_LENGTH_FOR_OCR_FALLBACK /\ ~significant_tables_found

\* a variant that puts the tables on the line after the direct text
DirectWithTablesNextLine(cleaned_direct_text, formatted_tables_text) ==
    IF formatted_tables_text # <<>>
    THEN cleaned_direct_text \o <<"\n">> \o formatted_tables_text
    ELSE cleaned_direct_text

\* lines 168-170 and 173-175: the direct text with the formatted tables appended
DirectWithTables(cleaned_direct_text, formatted_tables_text) ==
    IF formatted_tables_text # <<>>
    THEN cleaned_direct_text \o <<"\n", "\n">> \o formatted_tables_text
    ELSE cleaned_direct_text

(***************************************************************************)
(* chunk_text: the state of one call                                       *)
(***************************************************************************)
VARIABLES
    pdf,                  \* the file handed to process_pdf / extract_text_from_pdf
    pc,                   \* control location
    page_num,             \* page the extraction loop is at (i + 1)
    cleaned_direct_text,  \* of the page being extracted
    extracted_tables,     \* the grids page.extract_tables() returned for it
    calls,                \* collaborator calls made for that page, in order
    last_page,            \* what the arbiter saw and produced for the page just finished
    page_log,             \* per finished page: its number and how it ended
    extracted_data,       \* list of <<page_num, text>>
    returned,             \* what extract_text_from_pdf returned: "None" or "list"
    document_id,
    chunk_i,              \* position of the chunk_text loop in extracted_data
    current_chunk_index,  \* running index of chunk_text
    all_final_chunks,
    page_trace,           \* preprocessed text, map, raw and clean chunks of the page just chunked
    outcome,              \* what process_pdf returned or raised
    table_data,           \* argument of a call of detect_and_extract_tables
    table_context,        \* its context argument
    formatted_table,      \* what the call returned
    workers               \* per page: the local variables of a worker running the loop body

vars == <<pdf, pc, page_num, cleaned_direct_text, extracted_tables, calls, last_page, page_log,
          extracted_data, returned, document_id, chunk_i, current_chunk_index,
          all_final_chunks, page_trace, outcome, table_data, table_context, formatted_table,
          workers>>

extractVars == <<pdf, page_num, cleaned_direct_text, extracted_tables, calls, last_page,
                 page_log, returned>>

chunkVars == <<chunk_i, current_chunk_index, all_final_chunks, page_trace>>

formatVars == <<table_data, table_context, formatted_table>>

\* a variant of the id that numbers two chunks alike
ChunkIdHalved(doc, n) == doc \o <<"_", "c", "h", "u", "n", "k", "_">> \o Str(n \div 2)

\* f"{document_id}_chunk_{current_chunk_index}"
ChunkId(doc, n) == doc \o <<"_", "c", "h", "u", "n", "k", "_">> \o Str(n)

\* a variant that carries the document-wide running index as the index on the page
DocumentChunksRunningIndex(cleaned, doc, page_number, idx, total_pages) ==
    [i \in 1..Len(cleaned) |->
        [chunk_id    |-> ChunkId(doc, idx + i - 1),
         document_id |-> doc,
         text        |-> cleaned[i],
         metadata    |-> [document_id          |-> doc,
                          page_number          |-> page_number,
                          chunk_index_on_page  |-> idx + i - 1,
                          total_chunks_on_page |-> Len(cleaned),
                          total_document_pages |-> total_pages]]]

\* lines 200-218: the DocumentChunk objects of one page, numbered from idx
DocumentChunks(cleaned, doc, page_number, idx, total_pages) ==
    [i \in 1..Len(cleaned) |->
        [chunk_id    |-> ChunkId(doc, idx + i - 1),
         document_id |-> doc,
         text        |-> cleaned[i],
         metadata    |-> [document_id          |-> doc,
                          page_number          |-> page_number,
                          chunk_index_on_page  |-> i,
                          total_chunks_on_page |-> Len(cleaned),
                          total_document_pages |-> total_pages]]]

\* lines 182-192: preprocess, split, postprocess one page
PageResult(text, pre, spans) ==
    [text  |-> text,
     pre   |-> pre.text,
     map   |-> pre.map,
     raw   |-> spans,
     clean |-> PostprocessChunks(SpanTexts(pre.text, spans), pre.map)]

\* lines 189-192: split the preprocessed text, unless nothing is left of it
SplitPage(text, pre) ==
    PageResult(text, pre, IF pre.text = <<>> \/ AllSpace(pre.text) THEN <<>>
                          ELSE SplitTextSpans(pre.text))

ProcessPage(text, hexes) == SplitPage(text, PreprocessText(text, hexes))

NoTrace == [text |-> <<>>, pre |-> <<>>, map |-> <<>>, raw |-> <<>>, clean |-> <<>>]

(***************************************************************************)
(* Inputs of chunk_text                                                    *)
(***************************************************************************)
MaxSegs == 3        \* a page text is built from at most this many segments

MaxPages == 2       \* pages of a multi-page input

MaxUuid == 4        \* uuid4() values drawn per page

HexDigit(n) ==
    <<"0", "1", "2", "3", "4", "5", "6", "7", "8", "9", "a", "b", "c", "d", "e", "f">>[n + 1]

\* an 8-digit prefix of uuid4().hex
Hex8(n) == <<HexDigit((n \div 16) % 16), HexDigit(n % 16)>> \o Rep("0", 6)

\* two of the streams of values uuid4() can return in successive calls
UuidStreams ==
    {[k \in 1..MaxUuid |-> Hex8(k)], [k \in 1..MaxUuid |-> Hex8(255 - k)]}

\* a one-cell table as detect_and_extract_tables writes it
TableText ==
    TABLE_START \o <<" ", "T", "]", "\n">>
        \o <<"|", " ", "c", " ", "|", "\n">>
        \o <<"|", " ", "-", "-", "-", " ", "|", "\n">>
        \o TABLE_END

HeaderText == KEYWORD_EN \o <<" ", "1", ".", " ", "T", "\n">>

Segments ==
    { Rep("a", 700), Rep("b", 990),
      TableText,
      <<"\n", "\n">> \o TableText \o <<"\n", "\n">>,
      HeaderText }

RECURSIVE TextsUpTo(_)
TextsUpTo(n) ==
    IF n = 0 THEN {<<>>}
    ELSE LET P == TextsUpTo(n - 1) IN P \cup {p \o s : p \in P, s \in Segments}

PageTexts == TextsUpTo(MaxSegs) \ {<<>>}

\* the page texts of the multi-page inputs: a short text, a blank page, a page
\* that is nothing but the break marker, a page with a table, a page of two chunks
ShortTexts ==
    { <<"a", "b", "c">>,
      <<" ", " ", " ">>,
      SECTION_BREAK,
      <<"a", "\n", "\n">> \o TableText,
      Rep("a", 700) \o <<"\n", "\n">> \o TableText \o <<"\n", "\n">> \o Rep("a", 700) }

\* a one-cell table whose cell is 600 characters wide
WideTableText ==
    TABLE_START \o <<" ", "T", "]", "\n">>
        \o <<"|", " ">> \o Rep("c", 600) \o <<" ", "|", "\n">>
        \o <<"|", " ", "-", "-", "-", " ", "|", "\n">>
        \o TABLE_END

\* a header whose title stands on the line after a blank line: the \s+ of the
\* header pattern takes the blank line, so the header text is "Section 1.\n\nT"
HeaderWithGap == KEYWORD_EN \o <<" ", "1", ".", "\n", "\n", "T">>

HeaderGapPage == HeaderWithGap \o <<"\n">> \o Rep("b", 1100)

\* one header and 1800 body characters: a body without any separator, and a
\* body of two paragraphs
ScenarioCPlain == HeaderText \o Rep("b", 1800)

ScenarioCParagraphs == HeaderText \o Rep("a", 899) \o <<"\n", "\n">> \o Rep("b", 899)

\* single pages with long parts: a wide table between two paragraphs, a header
\* before a long paragraph, one header and 1800 body characters
LongPages ==
    { Rep("a", 700) \o <<"\n", "\n">> \o WideTableText \o <<"\n", "\n">> \o Rep("a", 700),
      HeaderGapPage,
      ScenarioCPlain,
      ScenarioCParagraphs }

\* strictly increasing page numbers, as extract_text_from_pdf produces them
PageNumberLists(n) ==
    {ns \in [1..n -> 1..(MaxPages + 1)] : \A i \in 1..(n - 1) : ns[i] < ns[i + 1]}

ChunkInputs ==
    {<<>>}
    \cup {<< <<1, t>> >> : t \in PageTexts}
    \cup {<< <<1, t>> >> : t \in LongPages}
    \cup UNION {{[i \in 1..n |-> <<ns[i], ts[i]>>] :
                    ns \in PageNumberLists(n), ts \in [1..n -> ShortTexts]} : n \in 2..MaxPages}

(***************************************************************************)
(* chunk_text, one loop iteration per step                                 *)
(***************************************************************************)
\* a variant of the skip that uses up an index for the skipped page
ChunkSkipPageCounts ==
    /\ pc = "chunk_loop"
    /\ chunk_i <= Len(extracted_data)
    /\ LET text == extracted_data[chunk_i][2]
       IN  /\ (text = <<>> \/ AllSpace(text))
           /\ page_trace' = [NoTrace EXCEPT !.text = text]
    /\ chunk_i' = chunk_i + 1
    /\ current_chunk_index' = current_chunk_index + 1
    /\ UNCHANGED <<pc, extractVars, extracted_data, document_id,
                   all_final_chunks, outcome, formatVars, workers>>

\* lines 175-178: an empty or all-white page is skipped
ChunkSkipPage ==
    /\ pc = "chunk_loop"
    /\ chunk_i <= Len(extracted_data)
    /\ LET text == extracted_data[chunk_i][2]
       IN  /\ (text = <<>> \/ AllSpace(text))
           /\ page_trace' = [NoTrace EXCEPT !.text = text]
    /\ chunk_i' = chunk_i + 1
    /\ UNCHANGED <<pc, extractVars, extracted_data, document_id, current_chunk_index,
                   all_final_chunks, outcome, formatVars, workers>>

\* lines 194-220: the chunks of one page are numbered and appended
AppendPage(r, page_number) ==
    /\ page_trace' = r
    /\ all_final_chunks' = all_final_chunks
           \o DocumentChunks(r.clean, document_id, page_number,
                             current_chunk_index, Len(extracted_data))
    /\ current_chunk_index' = current_chunk_index + Len(r.clean)

\* lines 180-220: the try block of one page
ChunkPage ==
    /\ pc = "chunk_loop"
    /\ chunk_i <= Len(extracted_data)
    /\ LET page_number == extracted_data[chunk_i][1]
           text     == extracted_data[chunk_i][2]
       IN  /\ ~(text = <<>> \/ AllSpace(text))
           /\ \E hexes \in (IF TableSpans(text) = <<>> THEN {<<>>} ELSE UuidStreams) :
                AppendPage(ProcessPage(text, hexes), page_number)
    /\ chunk_i' = chunk_i + 1
    /\ UNCHANGED <<pc, extractVars, extracted_data, document_id, outcome, formatVars, workers>>

\* lines 157-159 and 226-227: return [] for no input, else all_final_chunks
ChunkReturn ==
    /\ pc = "chunk_loop"
    /\ chunk_i > Len(extracted_data)
    /\ pc' = "chunk_done"
    /\ UNCHANGED <<extractVars, extracted_data, document_id, chunkVars, outcome, formatVars, workers>>

NoPdf == [is_file |-> FALSE, opens |-> FALSE, num_pages |-> 0]

NoPage ==
    [page_num |-> 0, status |-> "none", direct |-> <<>>, grids |-> <<>>, use_ocr |-> FALSE,
     ocr |-> "not_invoked", ocr_raw |-> <<>>, ocr_text |-> <<>>, content |-> <<>>]

ChunkInit ==
    /\ extracted_data \in ChunkInputs
    /\ document_id = <<"d", "o", "c">>
    /\ pc = "chunk_loop"
    /\ chunk_i = 1
    /\ current_chunk_index = 1
    /\ all_final_chunks = <<>>
    /\ page_trace = NoTrace
    /\ pdf = NoPdf
    /\ page_num = 0
    /\ cleaned_direct_text = <<>>
    /\ extracted_tables = <<>>
    /\ calls = <<>>
    /\ last_page = NoPage
    /\ page_log = <<>>
    /\ returned = "list"
    /\ outcome = "pending"
    /\ table_data = <<>>
    /\ table_context = <<>>
    /\ formatted_table = <<>>
    /\ workers = <<>>

ChunkNext == ChunkSkipPage \/ ChunkPage \/ ChunkReturn

\* chunk_text called on any list of pages
SpecChunk == ChunkInit /\ [][ChunkNext]_vars

(***************************************************************************)
(* Properties of chunk_text                                                *)
(***************************************************************************)
\* int(s) for a string of decimal digits
RECURSIVE DecimalValue(_)
DecimalValue(ds) ==
    IF ds = <<>> THEN 0
    ELSE 10 * DecimalValue(SubSeq(ds, 1, Len(ds) - 1))
             + (CHOOSE d \in 0..9 : Str(d) = <<ds[Len(ds)]>>)

\* the number after the last "_" of a chunk_id
IdSuffix(id) ==
    LET p == CHOOSE i \in 1..Len(id) : id[i] = "_" /\ \A k \in (i + 1)..Len(id) : id[k] # "_"
    IN  DecimalValue(SubSeq(id, p + 1, Len(id)))

\* C1: the chunk_ids chunk_text has assembled for a document are pairwise
\* distinct, and their numeric suffixes strictly increase in assembly order.
C1_ChunkIdsDistinctIncreasing ==
    \A i, j \in 1..Len(all_final_chunks) :
        i < j => /\ all_final_chunks[i].chunk_id # all_final_chunks[j].chunk_id
                 /\ IdSuffix(all_final_chunks[i].chunk_id)
                        < IdSuffix(all_final_chunks[j].chunk_id)

\* chunk_text has returned three chunks or more that come from two pages
C1_Witness ==
    /\ pc = "chunk_done"
    /\ Len(all_final_chunks) >= 3
    /\ \E i, j \in 1..Len(all_final_chunks) :
          all_final_chunks[i].metadata.page_number
              # all_final_chunks[j].metadata.page_number

\* the text chunk_text was given for page number n
PageTextOf(n) ==
    LET k == CHOOSE k \in 1..Len(extracted_data) : extracted_data[k][1] = n
    IN  extracted_data[k][2]

\* the pages before position chunk_i that gave no chunk: blank ones, and
\* those whose chunks were all empty after postprocessing
PagesWithoutChunks ==
    {extracted_data[k][1] : k \in {j \in 1..(chunk_i - 1) :
        \A i \in 1..Len(all_final_chunks) :
            all_final_chunks[i].metadata.page_number # extracted_data[j][1]}}

\* C11: a blank page, or one that yields no clean chunk, adds no ChunkRecord
\* and does not advance the index: the suffixes of the chunk_ids are 1..N
\* without gaps, and the index stands at N + 1, wherever such pages are.
C11_SkippedPagesLeaveNoGap ==
    /\ \A i \in 1..Len(all_final_chunks) : IdSuffix(all_final_chunks[i].chunk_id) = i
    /\ current_chunk_index = Len(all_final_chunks) + 1
    /\ \A i \in 1..Len(all_final_chunks) :
          ~AllSpace(PageTextOf(all_final_chunks[i].metadata.page_number))

\* chunk_text returned chunks numbered from 1 after a first page that is not
\* blank and gave no clean chunk
C11_Witness ==
    /\ pc = "chunk_done"
    /\ Len(extracted_data) = 2
    /\ ~AllSpace(extracted_data[1][2])
    /\ extracted_data[1][1] \in PagesWithoutChunks
    /\ Len(all_final_chunks) >= 2

\* the placeholder tokens generated for the page last processed
PageTokens == {page_trace.map[k][1] : k \in 1..Len(page_trace.map)}

\* a chunk ends with the first characters of a token or starts with its last
\* characters, "__" and one character more at least, or holds the whole token
HasTokenOrFragment(chunk, token) ==
    \/ Contains(chunk, token)
    \/ \E n \in 3..(Len(token) - 1) :
          /\ n <= Len(chunk)
          /\ \/ SubSeq(chunk, Len(chunk) - n + 1, Len(chunk)) = SubSeq(token, 1, n)
             \/ SubSeq(chunk, 1, n) = SubSeq(token, Len(token) - n + 1, Len(token))

\* C2: no CleanChunk of a page contains the break marker, a placeholder token
\* generated for the page, or a fragment of such a token.
C2_NoMarkerOrPlaceholder ==
    \A i \in 1..Len(page_trace.clean) :
        /\ ~Contains(page_trace.clean[i], SECTION_BREAK)
        /\ \A token \in PageTokens : ~HasTokenOrFragment(page_trace.clean[i], token)

\* the table envelopes of the page text last processed, as texts
PageEnvelopes ==
    LET spans == TableSpans(page_trace.text)
    IN  [k \in 1..Len(spans) |-> SubSeq(page_trace.text, spans[k][1], spans[k][2])]

\* the places <<chunk, position>> where a text stands in the CleanChunks
CleanOccurrences(e) ==
    UNION {{<<i, p>> : p \in Occurrences(page_trace.clean[i], e)} :
              i \in 1..Len(page_trace.clean)}

\* C3: every table envelope shorter than CHUNK_SIZE stands complete in exactly
\* one CleanChunk of its page: the CleanChunks hold it as often as the page does.
C3_TableInExactlyOneChunk ==
    \A k \in 1..Len(PageEnvelopes) :
        Len(PageEnvelopes[k]) < CHUNK_SIZE
            => Cardinality(CleanOccurrences(PageEnvelopes[k]))
                   = Cardinality({j \in 1..Len(PageEnvelopes) :
                                     PageEnvelopes[j] = PageEnvelopes[k]})

\* the occurrences <<first, last>> of the page's tokens in its PreprocessedText
TokenOccurrences ==
    UNION {{<<p, p + Len(token) - 1>> : p \in Occurrences(page_trace.pre, token)} :
              token \in PageTokens}

\* C4: a RawChunk that holds any character of a placeholder token holds the
\* whole token: the splitter puts no chunk boundary inside a token.
C4_NoCutInsidePlaceholder ==
    \A occ \in TokenOccurrences :
        \A i \in 1..Len(page_trace.raw) :
            LET a == page_trace.raw[i][1]
                b == page_trace.raw[i][2]
            IN  (a <= occ[2] /\ occ[1] <= b) => (a <= occ[1] /\ occ[2] <= b)

\* every chunk after the first without its first CHUNK_OVERLAP characters
RemoveOverlap(chunks) ==
    [i \in 1..Len(chunks) |->
        IF i = 1 THEN chunks[i] ELSE SubSeq(chunks[i], CHUNK_OVERLAP + 1, Len(chunks[i]))]

PageChunks(data, hexes) ==
    [k \in 1..Len(data) |->
        LET text == data[k][2]
        IN  IF text = <<>> \/ AllSpace(text) THEN <<>>
            ELSE ProcessPage(text, hexes).clean]

\* line 173, 220: the value of current_chunk_index when page k is reached
RECURSIVE IndexAt(_, _)
IndexAt(per_page, k) ==
    IF k = 1 THEN 1 ELSE IndexAt(per_page, k - 1) + Len(per_page[k - 1])

\* a variant of the assembly that takes the pages last to first
NumberChunksLastPageFirst(per_page, data, doc) ==
    Concat([k \in 1..Len(data) |->
               DocumentChunks(per_page[Len(data) + 1 - k], doc, data[Len(data) + 1 - k][1],
                              IndexAt([j \in 1..Len(data) |-> per_page[Len(data) + 1 - j]], k),
                              Len(data))])

\* lines 172-227: the chunks of all pages, numbered through
NumberChunks(per_page, data, doc) ==
    Concat([k \in 1..Len(data) |->
               DocumentChunks(per_page[k], doc, data[k][1], IndexAt(per_page, k),
                              Len(data))])

ChunkText(data, doc, hexes) == NumberChunks(PageChunks(data, hexes), data, doc)

(***************************************************************************)
(* The body of the page loop of chunk_text run by one worker per page,     *)
(* the workers interleaved step by step, and the assembly of lines 194-220 *)
(* done over the finished pages in list order                              *)
(***************************************************************************)
\* the locals of one iteration: lines 182, 189 and 192
WorkerStart ==
    [pc |-> "start", hexes |-> <<>>, preprocessed_text |-> <<>>, placeholder_map |-> <<>>,
     raw_chunks_on_page |-> <<>>, cleaned_chunks_on_page |-> <<>>, map_from |-> 0]

\* the page texts of the worker runs: a blank page, a page with a table, a
\* page of two chunks with a table
WorkerTexts ==
    { <<" ", " ", " ">>,
      <<"a", "\n", "\n">> \o TableText,
      Rep("a", 700) \o <<"\n", "\n">> \o TableText \o <<"\n", "\n">> \o Rep("a", 700) }

WorkerInputs ==
    UNION {{[i \in 1..n |-> <<ns[i], ts[i]>>] :
               ns \in PageNumberLists(n), ts \in [1..n -> WorkerTexts]} : n \in 2..MaxPages}

\* lines 176-178: nothing to do for a blank page
WorkerSkip(k) ==
    /\ pc = "workers"
    /\ workers[k].pc = "start"
    /\ (extracted_data[k][2] = <<>> \/ AllSpace(extracted_data[k][2]))
    /\ workers' = [workers EXCEPT ![k].pc = "done"]
    /\ UNCHANGED <<pc, extractVars, extracted_data, document_id, chunkVars, outcome, formatVars>>

\* lines 182-186: the text and the map that _preprocess_text returned become
\* locals of the iteration; a blank result ends it
Preprocessed(w, hexes, pre) ==
    [w EXCEPT !.pc = IF pre.text = <<>> \/ AllSpace(pre.text) THEN "done" ELSE "preprocessed",
              !.hexes = hexes,
              !.preprocessed_text = pre.text,
              !.placeholder_map = pre.map]

WorkerPreprocess(k) ==
    /\ pc = "workers"
    /\ workers[k].pc = "start"
    /\ ~(extracted_data[k][2] = <<>> \/ AllSpace(extracted_data[k][2]))
    /\ \E hexes \in (IF TableSpans(extracted_data[k][2]) = <<>> THEN {<<>>} ELSE UuidStreams) :
          workers' = [workers EXCEPT
                         ![k] = Preprocessed(@, hexes,
                                             PreprocessText(extracted_data[k][2], hexes))]
    /\ UNCHANGED <<pc, extractVars, extracted_data, document_id, chunkVars, outcome, formatVars>>

\* line 189: the splitter object is shared and only read
WorkerSplit(k) ==
    /\ pc = "workers"
    /\ workers[k].pc = "preprocessed"
    /\ workers' = [workers EXCEPT
                      ![k].pc = "split",
                      ![k].raw_chunks_on_page = SplitTextSpans(workers[k].preprocessed_text)]
    /\ UNCHANGED <<pc, extractVars, extracted_data, document_id, chunkVars, outcome, formatVars>>

\* a variant in which the map is one object all iterations share: the map
\* the first page filled
MapPassedShared(k) == 1

\* line 192: the map passed to _postprocess_chunks is the local of the same
\* iteration, the one line 182 bound
MapPassed(k) == k

WorkerPostprocess(k) ==
    /\ pc = "workers"
    /\ workers[k].pc = "split"
    /\ workers' = [workers EXCEPT
                      ![k].pc = "done",
                      ![k].map_from = MapPassed(k),
                      ![k].cleaned_chunks_on_page =
                          PostprocessChunks(SpanTexts(workers[k].preprocessed_text,
                                                      workers[k].raw_chunks_on_page),
                                            workers[MapPassed(k)].placeholder_map)]
    /\ UNCHANGED <<pc, extractVars, extracted_data, document_id, chunkVars, outcome, formatVars>>

\* lines 194-220 and 227 over the finished pages, in list order
Assembled(chunks) ==
    /\ all_final_chunks' = chunks
    /\ current_chunk_index' = 1 + Len(chunks)

WorkersAssemble ==
    /\ pc = "workers"
    /\ \A k \in 1..Len(workers) : workers[k].pc = "done"
    /\ Assembled(NumberChunks([k \in 1..Len(workers) |-> workers[k].cleaned_chunks_on_page],
                              extracted_data, document_id))
    /\ chunk_i' = Len(extracted_data) + 1
    /\ pc' = "chunk_done"
    /\ UNCHANGED <<extractVars, extracted_data, document_id, page_trace, outcome, formatVars,
                   workers>>

WorkerInit ==
    /\ extracted_data \in WorkerInputs
    /\ workers = [k \in 1..Len(extracted_data) |-> WorkerStart]
    /\ document_id = <<"d", "o", "c">>
    /\ pc = "workers"
    /\ chunk_i = 1
    /\ current_chunk_index = 1
    /\ all_final_chunks = <<>>
    /\ page_trace = NoTrace
    /\ pdf = NoPdf
    /\ page_num = 0
    /\ cleaned_direct_text = <<>>
    /\ extracted_tables = <<>>
    /\ calls = <<>>
    /\ last_page = NoPage
    /\ page_log = <<>>
    /\ returned = "list"
    /\ outcome = "pending"
    /\ table_data = <<>>
    /\ table_context = <<>>
    /\ formatted_table = <<>>

WorkerNext ==
    \/ \E k \in 1..Len(workers) : WorkerSkip(k)
    \/ \E k \in 1..Len(workers) : WorkerPreprocess(k)
    \/ \E k \in 1..Len(workers) : WorkerSplit(k)
    \/ \E k \in 1..Len(workers) : WorkerPostprocess(k)
    \/ WorkersAssemble

\* the pages of a document processed by interleaved workers, then assembled
SpecWorkers == WorkerInit /\ [][WorkerNext]_vars

\* what the sequential loop makes of page k when uuid4() gives it the values
\* worker k got
SequentialPageChunks ==
    [k \in 1..Len(extracted_data) |->
        IF extracted_data[k][2] = <<>> \/ AllSpace(extracted_data[k][2]) THEN <<>>
        ELSE ProcessPage(extracted_data[k][2], workers[k].hexes).clean]

MaxPdfPages == 2

\* page.extract_text() returning None
NoneText == <<"None">>

\* page.extract_text(): None, white space, 20 characters that normalise to 19,
\* and 20 characters
RawTexts ==
    { NoneText,
      <<" ", "\n">>,
      Rep("x", 10) \o <<" ", " ">> \o Rep("x", 8),
      Rep("y", 20) }

\* page.extract_tables(): no table, one row, two rows, two blank rows, a row
\* and a None row, two one-row tables
GridLists ==
    { <<>>,
      << << << <<"c">> >> >> >>,
      << << << <<"h">> >>, << <<"v">> >> >> >>,
      << << <<NoneCell>>, << <<" ">> >> >> >>,
      << << << <<"h">> >>, NoneRow >> >>,
      << << << <<"c">> >> >>, << << <<"d">> >> >> >> }

\* pytesseract.image_to_string(): nothing, or some text
OcrTexts == { <<>>, <<"o", " ", "\n", "k">> }

Pdfs ==
    {[is_file |-> FALSE, opens |-> FALSE, num_pages |-> 0],
     [is_file |-> TRUE, opens |-> FALSE, num_pages |-> 0]}
    \cup {[is_file |-> TRUE, opens |-> TRUE, num_pages |-> n] : n \in 0..MaxPdfPages}

(***************************************************************************)
(* extract_text_from_pdf, one collaborator call per step                   *)
(***************************************************************************)
\* the loop header of line 121: on to the next page, or out of the loop
AfterPage == IF page_num < pdf.num_pages THEN "page_text" ELSE "extract_return"

\* lines 112-115: the path is not a file
ExtractNotFound ==
    /\ pc = "extract_start"
    /\ ~pdf.is_file
    /\ returned' = "None"
    /\ pc' = "extract_done"
    /\ UNCHANGED <<pdf, page_num, cleaned_direct_text, extracted_tables, calls, last_page,
                   page_log, extracted_data, document_id, chunkVars, outcome, formatVars, workers>>

\* lines 193-195: pdfplumber.open raises
ExtractOpenFails ==
    /\ pc = "extract_start"
    /\ pdf.is_file /\ ~pdf.opens
    /\ returned' = "None"
    /\ pc' = "extract_done"
    /\ UNCHANGED <<pdf, page_num, cleaned_direct_text, extracted_tables, calls, last_page,
                   page_log, extracted_data, document_id, chunkVars, outcome, formatVars, workers>>

\* lines 117-121
ExtractOpen ==
    /\ pc = "extract_start"
    /\ pdf.is_file /\ pdf.opens
    /\ extracted_data' = <<>>
    /\ page_num' = 1
    /\ pc' = IF pdf.num_pages >= 1 THEN "page_text" ELSE "extract_return"
    /\ UNCHANGED <<pdf, cleaned_direct_text, extracted_tables, calls, last_page, page_log,
                   returned, document_id, chunkVars, outcome, formatVars, workers>>

\* lines 126-127: page.extract_text() returns
ExtractPageText ==
    /\ pc = "page_text"
    /\ \E direct_text \in RawTexts :
          cleaned_direct_text' =
              IF direct_text = NoneText \/ direct_text = <<>> THEN <<>>
              ELSE NormalizeSpace(direct_text)
    /\ calls' = <<"extract_text">>
    /\ extracted_tables' = <<>>
    /\ pc' = "page_tables"
    /\ UNCHANGED <<pdf, page_num, last_page, page_log, extracted_data, returned, document_id,
                   chunkVars, outcome, formatVars, workers>>

\* a variant of the handler that tries the page once more after a failure
ExtractPageTextRaisesRetries ==
    /\ pc = "page_text"
    /\ calls' = <<"extract_text">>
    /\ last_page' = [NoPage EXCEPT !.page_num = page_num, !.status = "failed"]
    /\ page_log' = Append(page_log, [page_num |-> page_num, status |-> "failed"])
    /\ cleaned_direct_text' = <<>>
    /\ extracted_tables' = <<>>
    /\ page_num' = IF last_page.page_num = page_num THEN page_num + 1 ELSE page_num
    /\ pc' = IF last_page.page_num = page_num THEN AfterPage ELSE "page_text"
    /\ UNCHANGED <<pdf, extracted_data, returned, document_id, chunkVars, outcome, formatVars, workers>>

\* lines 126, 186-188: page.extract_text() raises, the page is skipped
ExtractPageTextRaises ==
    /\ pc = "page_text"
    /\ calls' = <<"extract_text">>
    /\ last_page' = [NoPage EXCEPT !.page_num = page_num, !.status = "failed"]
    /\ page_log' = Append(page_log, [page_num |-> page_num, status |-> "failed"])
    /\ cleaned_direct_text' = <<>>
    /\ extracted_tables' = <<>>
    /\ page_num' = page_num + 1
    /\ pc' = AfterPage
    /\ UNCHANGED <<pdf, extracted_data, returned, document_id, chunkVars, outcome, formatVars, workers>>

\* lines 177-184: strip, and append the page if anything is left
FinishPage(page_content, grids, use_ocr, ocr, ocr_raw, ocr_text) ==
    LET final_page_content == Strip(page_content)
        status == IF final_page_content # <<>> THEN "kept" ELSE "empty"
    IN  /\ extracted_data' =
               IF final_page_content # <<>>
               THEN Append(extracted_data, <<page_num, final_page_content>>)
               ELSE extracted_data
        /\ last_page' = [page_num |-> page_num, status |-> status,
                         direct |-> cleaned_direct_text, grids |-> grids,
                         use_ocr |-> use_ocr, ocr |-> ocr, ocr_raw |-> ocr_raw,
                         ocr_text |-> ocr_text,
                         content |-> final_page_content]
        /\ page_log' = Append(page_log, [page_num |-> page_num, status |-> status])
        /\ page_num' = page_num + 1
        /\ pc' = AfterPage

\* lines 130-152 and 171-184: page.extract_tables() returns; the tables are
\* formatted, and without OCR the page is finished from the direct text
ExtractPageTables ==
    /\ pc = "page_tables"
    /\ \E grids \in GridLists :
          LET formatted_tables_text    == FormattedTablesText(grids, page_num)
              significant_tables_found == SignificantTablesFound(grids, page_num)
          IN  /\ extracted_tables' = grids
              /\ calls' = Append(calls, "extract_tables")
              /\ IF UseOcr(cleaned_direct_text, significant_tables_found)
                 THEN /\ pc' = "page_ocr"
                      /\ UNCHANGED <<page_num, last_page, page_log, extracted_data>>
                 ELSE FinishPage(DirectWithTables(cleaned_direct_text, formatted_tables_text),
                                 grids, FALSE, "not_invoked", <<>>, <<>>)
    /\ UNCHANGED <<pdf, cleaned_direct_text, returned, document_id, chunkVars, outcome, formatVars, workers>>

\* a variant without the try of lines 125-188: the failure reaches the outer
\* handler of lines 193-195 and the call returns None
ExtractPageTablesAborts ==
    /\ pc = "page_tables"
    /\ calls' = Append(calls, "extract_tables")
    /\ last_page' = [NoPage EXCEPT !.page_num = page_num, !.status = "failed",
                                   !.direct = cleaned_direct_text]
    /\ page_log' = Append(page_log, [page_num |-> page_num, status |-> "failed"])
    /\ returned' = "None"
    /\ extracted_data' = <<>>
    /\ pc' = "extract_done"
    /\ UNCHANGED <<pdf, page_num, cleaned_direct_text, extracted_tables, document_id,
                   chunkVars, outcome, formatVars, workers>>

\* lines 130, 186-188: page.extract_tables() raises, the page is skipped
ExtractPageTablesRaises ==
    /\ pc = "page_tables"
    /\ calls' = Append(calls, "extract_tables")
    /\ last_page' = [NoPage EXCEPT !.page_num = page_num, !.status = "failed",
                                   !.direct = cleaned_direct_text]
    /\ page_log' = Append(page_log, [page_num |-> page_num, status |-> "failed"])
    /\ page_num' = page_num + 1
    /\ pc' = AfterPage
    /\ UNCHANGED <<pdf, cleaned_direct_text, extracted_tables, extracted_data, returned,
                   document_id, chunkVars, outcome, formatVars, workers>>

\* lines 155-164: the page is rendered and recognised; the OCR text is the page
OcrPage ==
    /\ pc = "page_ocr"
    /\ \E ocr_text \in OcrTexts :
          LET cleaned_ocr_text == IF ocr_text = <<>> THEN <<>> ELSE NormalizeSpace(ocr_text)
          IN  FinishPage(cleaned_ocr_text, extracted_tables, TRUE, "returned",
                         ocr_text, cleaned_ocr_text)
    /\ calls' = calls \o <<"to_image", "image_to_string">>
    /\ UNCHANGED <<pdf, cleaned_direct_text, extracted_tables, returned, document_id,
                   chunkVars, outcome, formatVars, workers>>

\* a variant of the handler of lines 165-170 that leaves the page without text
OcrPageRaisesDropsPage ==
    /\ pc = "page_ocr"
    /\ \E made \in {<<"to_image">>, <<"to_image", "image_to_string">>} :
          calls' = calls \o made
    /\ FinishPage(<<>>, extracted_tables, TRUE, "raised", <<>>, <<>>)
    /\ UNCHANGED <<pdf, cleaned_direct_text, extracted_tables, returned, document_id,
                   chunkVars, outcome, formatVars, workers>>

\* lines 165-170: rendering or recognition raises; the direct text and the
\* tables formatted before are used
OcrPageRaises ==
    /\ pc = "page_ocr"
    /\ \E made \in {<<"to_image">>, <<"to_image", "image_to_string">>} :
          calls' = calls \o made
    /\ FinishPage(DirectWithTables(cleaned_direct_text,
                                   FormattedTablesText(extracted_tables, page_num)),
                  extracted_tables, TRUE, "raised", <<>>, <<>>)
    /\ UNCHANGED <<pdf, cleaned_direct_text, extracted_tables, returned, document_id,
                   chunkVars, outcome, formatVars, workers>>

\* lines 190-191
ExtractReturn ==
    /\ pc = "extract_return"
    /\ returned' = "list"
    /\ pc' = "extract_done"
    /\ UNCHANGED <<pdf, page_num, cleaned_direct_text, extracted_tables, calls, last_page,
                   page_log, extracted_data, document_id, chunkVars, outcome, formatVars, workers>>

(***************************************************************************)
(* process_pdf                                                             *)
(***************************************************************************)
\* a variant of lines 50-58 that returns [] when nothing was extracted
ProcessPdfNoDataReturnsEmpty ==
    /\ pc = "extract_done"
    /\ (returned = "None" \/ extracted_data = <<>>)
    /\ outcome' = "no_chunks"
    /\ pc' = "done"
    /\ UNCHANGED <<extractVars, extracted_data, document_id, chunkVars, formatVars, workers>>

\* lines 50-58: nothing extracted (None or an empty list) raises
\* PDFProcessingError
ProcessPdfNoData ==
    /\ pc = "extract_done"
    /\ (returned = "None" \/ extracted_data = <<>>)
    /\ outcome' = "PDFProcessingError"
    /\ pc' = "done"
    /\ UNCHANGED <<extractVars, extracted_data, document_id, chunkVars, formatVars, workers>>

\* lines 73-76: no chunks gives [] back, else on to the embeddings
ChunksReturned(chunks) ==
    /\ all_final_chunks' = chunks
    /\ current_chunk_index' = 1 + Len(chunks)
    /\ IF chunks = <<>>
       THEN outcome' = "no_chunks" /\ pc' = "done"
       ELSE outcome' = "pending" /\ pc' = "embed"

\* lines 61-76: chunk_text on the extracted pages
ProcessPdfChunk ==
    /\ pc = "extract_done"
    /\ returned = "list" /\ extracted_data # <<>>
    /\ \E hexes \in UuidStreams :
          ChunksReturned(ChunkText(extracted_data, document_id, hexes))
    /\ chunk_i' = Len(extracted_data) + 1
    /\ UNCHANGED <<extractVars, extracted_data, document_id, page_trace, formatVars, workers>>

\* lines 79-82: generate_embeddings returns the chunks
ProcessPdfEmbed ==
    /\ pc = "embed"
    /\ outcome' = "chunks"
    /\ pc' = "done"
    /\ UNCHANGED <<extractVars, extracted_data, document_id, chunkVars, formatVars, workers>>

\* lines 83-90: generate_embeddings raises
ProcessPdfEmbedRaises ==
    /\ pc = "embed"
    /\ outcome' = "EmbeddingError"
    /\ pc' = "done"
    /\ UNCHANGED <<extractVars, extracted_data, document_id, chunkVars, formatVars, workers>>

Init ==
    /\ pdf \in Pdfs
    /\ pc = "extract_start"
    /\ page_num = 0
    /\ cleaned_direct_text = <<>>
    /\ extracted_tables = <<>>
    /\ calls = <<>>
    /\ last_page = NoPage
    /\ page_log = <<>>
    /\ extracted_data = <<>>
    /\ returned = "pending"
    /\ document_id = <<"d", "o", "c">>
    /\ chunk_i = 1
    /\ current_chunk_index = 1
    /\ all_final_chunks = <<>>
    /\ page_trace = NoTrace
    /\ outcome = "pending"
    /\ table_data = <<>>
    /\ table_context = <<>>
    /\ formatted_table = <<>>
    /\ workers = <<>>

Next ==
    \/ ExtractNotFound
    \/ ExtractOpenFails
    \/ ExtractOpen
    \/ ExtractPageText
    \/ ExtractPageTextRaises
    \/ ExtractPageTables
    \/ ExtractPageTablesRaises
    \/ OcrPage
    \/ OcrPageRaises
    \/ ExtractReturn
    \/ ProcessPdfNoData
    \/ ProcessPdfChunk
    \/ ProcessPdfEmbed
    \/ ProcessPdfEmbedRaises

\* process_pdf on one file
Spec == Init /\ [][Next]_vars

(***************************************************************************)
(* detect_and_extract_tables called on its own                             *)
(***************************************************************************)
MaxRows == 3        \* rows of a grid handed to the formatter

\* rows page.extract_tables() can give: None, no cells, blank cells only, a
\* header, a row of the same length, a shorter row, and a longer row with
\* white space to clean and a "|" in a cell
GridRows ==
    { NoneRow,
      <<>>,
      <<NoneCell, <<" ">> >>,
      << <<"A">>, <<"B">> >>,
      << <<"1">>, <<"2">> >>,
      << <<"c">> >>,
      << <<" ", "x", " ", "\n", "y", " ">>, <<"p", "|", "q">>, <<"z">> >> }

RECURSIVE GridsUpTo(_)
GridsUpTo(n) ==
    IF n = 0 THEN {<<>>}
    ELSE LET G == GridsUpTo(n - 1) IN G \cup {Append(g, r) : g \in G, r \in GridRows}

Contexts == { <<"T", "1">>, TableContext(1, 1) }

FormatInit ==
    /\ table_data \in GridsUpTo(MaxRows)
    /\ table_context \in Contexts
    /\ formatted_table = <<>>
    /\ pc = "format_call"
    /\ extracted_data = <<>>
    /\ workers = <<>>
    /\ document_id = <<"d", "o", "c">>
    /\ chunk_i = 1
    /\ current_chunk_index = 1
    /\ all_final_chunks = <<>>
    /\ page_trace = NoTrace
    /\ pdf = NoPdf
    /\ page_num = 0
    /\ cleaned_direct_text = <<>>
    /\ extracted_tables = <<>>
    /\ calls = <<>>
    /\ last_page = NoPage
    /\ page_log = <<>>
    /\ returned = "pending"
    /\ outcome = "pending"

\* lines 20-98: one call, from the arguments to the string returned
DetectAndExtractTables ==
    /\ pc = "format_call"
    /\ formatted_table' = FormatTable(table_data, table_context)
    /\ pc' = "format_done"
    /\ UNCHANGED <<extractVars, extracted_data, document_id, chunkVars, outcome, table_data,
                   table_context, workers>>

FormatNext == DetectAndExtractTables

\* detect_and_extract_tables on any grid
SpecFormat == FormatInit /\ [][FormatNext]_vars

(***************************************************************************)
(* Properties of extract_text_from_pdf and process_pdf                     *)
(***************************************************************************)
\* the page in last_page went through text and table extraction and was
\* finished, and calls still holds the calls made for it
PageDone ==
    /\ pc \notin {"extract_start", "page_tables", "page_ocr"}
    /\ last_page.status \in {"kept", "empty"}

\* the OCR step (rendering the page, then recognition) was entered
OcrInvoked == \E k \in 1..Len(calls) : calls[k] = "to_image"

\* a raw cell with something in it but white space
CellHasText(cell) == cell # NoneCell /\ ~AllSpace(cell)

\* a table that has MIN_TABLE_ROWS_FOR_SIGNIFICANCE raw rows and any content
SignificantGrid(grid) ==
    /\ Len(grid) >= MIN_TABLE_ROWS_FOR_SIGNIFICANCE
    /\ \E r \in 1..Len(grid) :
          grid[r] # NoneRow /\ \E c \in 1..Len(grid[r]) : CellHasText(grid[r][c])

\* C6: for a page whose text and tables were extracted, the OCR step is entered
\* if and only if the normalized direct text has fewer than
\* MIN_TEXT_LENGTH_FOR_OCR_FALLBACK characters and no table of the page is
\* significant.
C6_OcrIffShortAndNoSignificantTable ==
    PageDone =>
        (OcrInvoked <=>
            /\ Len(last_page.direct) < MIN_TEXT_LENGTH_FOR_OCR_FALLBACK
            /\ ~\E k \in 1..Len(last_page.grids) : SignificantGrid(last_page.grids[k]))

\* OCR was entered for a page with a short text and a table that is not
\* significant
C6_Witness ==
    /\ PageDone
    /\ OcrInvoked
    /\ last_page.direct # <<>>
    /\ last_page.grids # <<>>

\* the text the page has without OCR: direct text, blank line, formatted tables
FallbackText ==
    Strip(DirectWithTables(last_page.direct,
                           FormattedTablesText(last_page.grids, last_page.page_num)))

PageInResult(n, t) == \E k \in 1..Len(extracted_data) : extracted_data[k] = <<n, t>>

PageAbsent(n) == \A k \in 1..Len(extracted_data) : extracted_data[k][1] # n

\* C7: when OCR is invoked for a page and returns empty text, the final page
\* text is the direct text with the tables formatted before the OCR attempt,
\* and a page that has such text is kept in the result.
C7_EmptyOcrFallsBack ==
    (PageDone /\ last_page.ocr = "returned" /\ last_page.ocr_text = <<>>)
        => /\ last_page.content = FallbackText
           /\ FallbackText # <<>> => PageInResult(last_page.page_num, FallbackText)

\* the page in last_page was finished by the step just taken
JustFinished ==
    /\ pc \in {"page_text", "extract_return"}
    /\ page_num = last_page.page_num + 1

\* C8 as stated: when OCR raises for a page the page is in the result with
\* the direct text followed by the formatted tables, and the loop goes on.
C8_OcrFailureKeepsPage ==
    (PageDone /\ last_page.ocr = "raised")
        => /\ PageInResult(last_page.page_num, FallbackText)
           /\ returned # "None"
           /\ JustFinished => (pc = "page_text" <=> last_page.page_num < pdf.num_pages)

\* C8 amended: when OCR raises for a page, the final page text is the direct
\* text, a blank line and the formatted tables (the blank line only before
\* tables), trimmed; the page is in the result if that text is not empty and is
\* left out if it is empty; the call does not return None and goes on with the
\* next page.
C8_OcrFailureFallsBack ==
    (PageDone /\ last_page.ocr = "raised")
        => /\ last_page.content = FallbackText
           /\ FallbackText # <<>> => PageInResult(last_page.page_num, FallbackText)
           /\ FallbackText = <<>> => PageAbsent(last_page.page_num)
           /\ returned # "None"
           /\ JustFinished => (pc = "page_text" <=> last_page.page_num < pdf.num_pages)

\* OCR raised on the first of two pages, which is kept with its direct text
\* and a table, and the second page is being processed
C8_Witness ==
    /\ PageDone /\ last_page.ocr = "raised"
    /\ last_page.page_num = 1 /\ pc = "page_text"
    /\ last_page.direct # <<>> /\ last_page.grids # <<>>
    /\ PageInResult(1, FallbackText)

\* C9: a step in which the page parser fails on a page leaves the entries of
\* the result as they are and moves to the next page (or to the return after
\* the last page); and once a parser failure has happened the call returns a
\* list, not None.
C9_ParserFailureSkipsOnlyThatPage ==
    /\ [][(Len(page_log') = Len(page_log) + 1 /\ last_page'.status = "failed")
             => /\ extracted_data' = extracted_data
                /\ page_num' = page_num + 1
                /\ pc' = IF page_num < pdf.num_pages THEN "page_text" ELSE "extract_return"
                /\ returned' # "None"]_vars
    /\ []((pc = "extract_done" /\ \E k \in 1..Len(page_log) : page_log[k].status = "failed")
             => returned = "list")

\* the parser failed on page 1, page 2 was kept, and the list was returned
C9_Witness ==
    /\ pc = "extract_done"
    /\ returned = "list"
    /\ Len(page_log) = 2
    /\ page_log[1].status = "failed"
    /\ page_log[2].status = "kept"
    /\ Len(extracted_data) = 1 /\ extracted_data[1][1] = 2

EveryPageFailed ==
    /\ Len(page_log) = pdf.num_pages
    /\ \A k \in 1..Len(page_log) : page_log[k].status = "failed"

KeptPages == {page_log[k].page_num : k \in {j \in 1..Len(page_log) : page_log[j].status = "kept"}}

ChunkTextReturned == pc \in {"embed", "done"} /\ returned = "list" /\ extracted_data # <<>>

\* C12: the pages extract_text_from_pdf hands over have strictly increasing
\* page numbers, and chunk_text consumes them in that order: among the
\* ChunkRecords of a document, a greater chunk_id suffix never goes with a
\* smaller page_number.
C12_PageOrderStable ==
    /\ \A i, j \in 1..Len(extracted_data) :
          i < j => extracted_data[i][1] < extracted_data[j][1]
    /\ \A i, j \in 1..Len(all_final_chunks) :
          IdSuffix(all_final_chunks[i].chunk_id) < IdSuffix(all_final_chunks[j].chunk_id)
              => all_final_chunks[i].metadata.page_number
                     <= all_final_chunks[j].metadata.page_number

\* process_pdf got chunks of two pages of the file
C12_Witness ==
    /\ ChunkTextReturned
    /\ \E i, j \in 1..Len(all_final_chunks) :
          all_final_chunks[i].metadata.page_number
              < all_final_chunks[j].metadata.page_number

\* C14: a second run of chunk_text on the same page list and document id,
\* whatever tokens uuid4() gives it, returns the ChunkRecord sequence the
\* first run returned.
C14_SameResultWhateverTokens ==
    pc = "chunk_done" =>
        \A hexes \in UuidStreams :
            ChunkText(extracted_data, document_id, hexes) = all_final_chunks

\* the words of a text: its maximal runs of characters that are not white space
RECURSIVE WordsOf(_)
WordsOf(t) ==
    IF t = <<>> THEN <<>>
    ELSE IF IsSpace(t[1]) THEN WordsOf(Tail(t))
    ELSE LET n == CHOOSE n \in 1..Len(t) :
                      /\ \A i \in 1..n : ~IsSpace(t[i])
                      /\ n = Len(t) \/ IsSpace(t[n + 1])
         IN  <<SubSeq(t, 1, n)>> \o WordsOf(SubSeq(t, n + 1, Len(t)))

\* the formatted tables of the page in last_page that are not empty, in order
PageTables ==
    SelectSeq([k \in 1..Len(last_page.grids) |->
                  FormatTable(last_page.grids[k], TableContext(last_page.page_num, k))],
              LAMBDA f : f # <<>>)

\* C15: for a finished page, when OCR was invoked and returned text that is
\* not blank, the final page text is the words of the OCR output joined by
\* single spaces, without any table envelope; when OCR was not invoked it is
\* the normalized direct text and the non-empty formatted tables of the page
\* in order, joined by blank lines and trimmed.
C15_PageTextByPath ==
    PageDone =>
        /\ (last_page.ocr = "returned" /\ ~AllSpace(last_page.ocr_raw))
              => /\ last_page.content = Join(WordsOf(last_page.ocr_raw), <<" ">>)
                 /\ ~Contains(last_page.content, TABLE_START)
        /\ last_page.ocr = "not_invoked"
              => last_page.content
                     = Strip(Join(<<last_page.direct>> \o PageTables, <<"\n", "\n">>))

\* the first page was finished without OCR and has its direct text and two
\* tables; the second, with a short direct text and a table, has the OCR text
C15_Witness ==
    /\ PageDone
    /\ last_page.ocr = "returned" /\ last_page.content # <<>>
    /\ last_page.direct # <<>> /\ PageTables # <<>>
    /\ \E k \in 1..Len(extracted_data) :
          /\ extracted_data[k][1] < last_page.page_num
          /\ Cardinality(Occurrences(extracted_data[k][2], TABLE_START)) = 2
          /\ extracted_data[k][2][1] \in {"x", "y"}

(***************************************************************************)
(* _preprocess_text called on its own, and _postprocess_chunks on the      *)
(* whole preprocessed text as one chunk                                    *)
(***************************************************************************)
MaxPreSegs == 3     \* a text handed to _preprocess_text has at most this many segments

\* a second table, with another label and cell
TableTextU ==
    TABLE_START \o <<" ", "U", "]", "\n">> \o <<"|", " ", "d", " ", "|", "\n">> \o TABLE_END

PreSegments ==
    { <<"a">>, <<"\n">>, HeaderText, TableText, TableTextU, SECTION_BREAK }

RECURSIVE PreTextsUpTo(_)
PreTextsUpTo(n) ==
    IF n = 0 THEN {<<>>}
    ELSE LET P == PreTextsUpTo(n - 1) IN P \cup {p \o seg : p \in P, seg \in PreSegments}

\* what uuid4().hex[:8] can return in the calls for one text: any values, also
\* the same value twice
UuidDraws(n) == [1..n -> {Hex8(1), Hex8(254)}]

PreprocessInit ==
    /\ page_trace \in {[NoTrace EXCEPT !.text = t] : t \in PreTextsUpTo(MaxPreSegs)}
    /\ pc = "preprocess_call"
    /\ extracted_data = <<>>
    /\ workers = <<>>
    /\ document_id = <<"d", "o", "c">>
    /\ chunk_i = 1
    /\ current_chunk_index = 1
    /\ all_final_chunks = <<>>
    /\ pdf = NoPdf
    /\ page_num = 0
    /\ cleaned_direct_text = <<>>
    /\ extracted_tables = <<>>
    /\ calls = <<>>
    /\ last_page = NoPage
    /\ page_log = <<>>
    /\ returned = "pending"
    /\ outcome = "pending"
    /\ table_data = <<>>
    /\ table_context = <<>>
    /\ formatted_table = <<>>

\* line 112: the pair _preprocess_text returns
PreprocessReturned(pre) ==
    page_trace' = [page_trace EXCEPT !.pre = pre.text, !.map = pre.map]

\* lines 35-112: one call of _preprocess_text
PreprocessCall ==
    /\ pc = "preprocess_call"
    /\ \E hexes \in UuidDraws(Len(TableSpans(page_trace.text))) :
          PreprocessReturned(PreprocessText(page_trace.text, hexes))
    /\ pc' = "preprocess_done"
    /\ UNCHANGED <<extractVars, extracted_data, document_id, chunk_i, current_chunk_index,
                   all_final_chunks, outcome, formatVars, workers>>

\* lines 115-129: _postprocess_chunks([preprocessed_text], placeholder_map)
PostprocessWhole ==
    /\ pc = "preprocess_done"
    /\ page_trace' = [page_trace EXCEPT
                         !.raw = << <<1, Len(page_trace.pre)>> >>,
                         !.clean = PostprocessChunks(<<page_trace.pre>>, page_trace.map)]
    /\ pc' = "postprocess_done"
    /\ UNCHANGED <<extractVars, extracted_data, document_id, chunk_i, current_chunk_index,
                   all_final_chunks, outcome, formatVars, workers>>

PreprocessNext == PreprocessCall \/ PostprocessWhole

\* _preprocess_text on any text, then _postprocess_chunks on the result
SpecPreprocess == PreprocessInit /\ [][PreprocessNext]_vars

(***************************************************************************)
(* Properties of detect_and_extract_tables                                 *)
(***************************************************************************)
\* t.split(c) for a one-character c
SplitChar(t, c) ==
    LET cuts == SortedSeq({i \in 1..Len(t) : t[i] = c})
    IN  [k \in 1..(Len(cuts) + 1) |->
            SubSeq(t, IF k = 1 THEN 1 ELSE cuts[k - 1] + 1,
                      IF k > Len(cuts) THEN Len(t) ELSE cuts[k] - 1)]

\* the lines of the string the formatter returned
OutputLines == SplitChar(formatted_table, "\n")

\* the lines between the start marker and the end marker
TableLines == SubSeq(OutputLines, 2, Len(OutputLines) - 1)

\* the cells a reader finds in a line "| a | b |": the parts between the
\* pipes, without the space on each side
LineCells(line) ==
    LET parts == SplitChar(line, "|")
    IN  [k \in 1..(Len(parts) - 2) |-> SubSeq(parts[k + 1], 2, Len(parts[k + 1]) - 1)]

\* the rows of the grid that are kept: not None and with text in some cell,
\* their cells cleaned
KeptRows == CleanTable(table_data)

\* the formatter has returned a table
TableReturned == pc = "format_done" /\ formatted_table # <<>>

\* C16: in every non-empty table returned, the header line, the separator line
\* and every data line have as many columns as the column count; the cells of
\* a row line are the cells of the kept row, cut to the column count or filled
\* up with empty cells, and the separator is one "---" per column.
C16_RowsHaveColumnCount ==
    TableReturned =>
        LET num_cols == Len(LineCells(TableLines[2]))
        IN  /\ Len(TableLines) = Len(KeptRows) + 1
            /\ LineCells(TableLines[2]) = [i \in 1..num_cols |-> <<"-", "-", "-">>]
            /\ \A k \in 1..Len(TableLines) : Len(LineCells(TableLines[k])) = num_cols
            /\ \A r \in 1..Len(KeptRows) :
                  LineCells(TableLines[IF r = 1 THEN 1 ELSE r + 1])
                      = [i \in 1..num_cols |->
                            IF i <= Len(KeptRows[r]) THEN KeptRows[r][i] ELSE <<>>]

\* the rows of the grid that are not None, their cells cleaned
CleanedRows ==
    LET rows == SelectSeq(table_data, LAMBDA row : row # NoneRow)
    IN  [k \in 1..Len(rows) |-> CleanRow(rows[k])]

\* the column count the table returned was written with: the "---" segments
\* of its separator line
ColumnCount == Cardinality(Occurrences(TableLines[2], <<"-", "-", "-">>))

\* the length of the first row, or of the longest row with text when the
\* first row has none
FirstRowOrLongest ==
    IF CleanedRows = <<>> THEN 0
    ELSE IF RowHasText(CleanedRows[1]) THEN Len(CleanedRows[1])
    ELSE IF KeptRows = <<>> THEN 0
    ELSE CHOOSE n \in {Len(KeptRows[k]) : k \in 1..Len(KeptRows)} :
             \A k \in 1..Len(KeptRows) : Len(KeptRows[k]) <= n

\* C17: the column count of the table returned is the length of the cleaned
\* first row of the grid or, when the first row is empty, the greatest row
\* length in the grid; when that is zero the formatter returns "".
C17_ColumnCountFromFirstRow ==
    pc = "format_done" =>
        IF FirstRowOrLongest = 0 THEN formatted_table = <<>>
        ELSE formatted_table # <<>> /\ ColumnCount = FirstRowOrLongest

\* the header line and the data lines: the lines between the markers without
\* the separator line
RowLines == <<TableLines[1]>> \o SubSeq(TableLines, 3, Len(TableLines))

\* C18: splitting the row lines of a table returned on "|" gives back the
\* shape of the padded grid: as many row lines as the grid has kept rows, and
\* in each of them as many cells as the column count.
C18_SplitOnPipeGivesGridShape ==
    TableReturned =>
        /\ Len(RowLines) = Len(KeptRows)
        /\ \A k \in 1..Len(RowLines) : Len(SplitChar(RowLines[k], "|")) - 2 = ColumnCount

\* the formatter was called on the grid [["A", "B"], ["1", "2"]] with the
\* label "T1" and has returned
ScenarioA ==
    /\ pc = "format_done"
    /\ table_data = << << <<"A">>, <<"B">> >>, << <<"1">>, <<"2">> >> >>
    /\ table_context = <<"T", "1">>

HeaderAB == <<"|", " ", "A", " ", "|", " ", "B", " ", "|">>

Data12 == <<"|", " ", "1", " ", "|", " ", "2", " ", "|">>

\* C19 as stated: for that grid the block between the start marker and the end
\* marker has four lines (counted without or with the marker lines), among
\* them the header line and the data line.
C19_ScenarioAFourLines ==
    ScenarioA =>
        /\ Len(TableLines) = 4 \/ Len(OutputLines) = 4
        /\ TableLines[1] = HeaderAB
        /\ TableLines[Len(TableLines)] = Data12

\* a kept row cut to the column count or filled up with empty cells, written
\* with a pipe before, between and after its cells
ExpectedRowLine(row) ==
    <<"|">> \o Concat([i \in 1..ColumnCount |->
                          <<" ">> \o (IF i <= Len(row) THEN row[i] ELSE <<>>) \o <<" ", "|">>])

\* C19 amended: for that grid the formatter returns five lines, the start
\* marker with the label, "| A | B |", "| --- | --- |", "| 1 | 2 |" and the end
\* marker (three lines between the markers); and every table returned is, in
\* order, the start marker with the label, the header line, the separator
\* line, one line for each further kept row, and the end marker.
C19_MarkerHeaderSeparatorRowsMarker ==
    /\ ScenarioA =>
          OutputLines = << TABLE_START \o <<" ", "T", "1", "]">>,
                           HeaderAB,
                           <<"|", " ", "-", "-", "-", " ", "|", " ", "-", "-", "-", " ", "|">>,
                           Data12,
                           TABLE_END >>
    /\ TableReturned =>
          /\ Len(OutputLines) = Len(KeptRows) + 3
          /\ OutputLines[1] = TABLE_START \o <<" ">> \o table_context \o <<"]">>
          /\ OutputLines[2] = ExpectedRowLine(KeptRows[1])
          /\ OutputLines[3] = ExpectedRowLine([i \in 1..ColumnCount |-> <<"-", "-", "-">>])
          /\ \A r \in 2..Len(KeptRows) : OutputLines[r + 2] = ExpectedRowLine(KeptRows[r])
          /\ OutputLines[Len(OutputLines)] = TABLE_END

\* the formatter returned the table of the grid [["A", "B"], ["1", "2"]]
C19_Witness == ScenarioA /\ formatted_table # <<>>

\* a grid without a usable column: no rows, or in every row that is not None
\* only cells that are None or blank
Unusable(grid) ==
    \A r \in 1..Len(grid) :
        grid[r] # NoneRow =>
            \A c \in 1..Len(grid[r]) : grid[r][c] = NoneCell \/ AllSpace(grid[r][c])

\* C20: for a grid without a usable column the formatter returns "" (the call
\* returns, nothing is raised), and lines 136-146 and 171-175 of the caller
\* then add nothing for the table: no table text, no significant table, and
\* the page text stays the direct text.
C20_UnusableGridGivesEmptyString ==
    (pc = "format_done" /\ Unusable(table_data)) =>
        /\ formatted_table = <<>>
        /\ TableTexts(<<table_data>>, 1, 1) = <<>>
        /\ ~SignificantTablesFound(<<table_data>>, 1)
        /\ DirectWithTables(<<"d">>, FormattedTablesText(<<table_data>>, 1)) = <<"d">>

\* the formatter has returned from a grid of two rows or more in which a row
\* has cells, all of them None or blank
C20_Witness ==
    /\ pc = "format_done"
    /\ Unusable(table_data)
    /\ Len(table_data) >= 2
    /\ \E r \in 1..Len(table_data) : table_data[r] # NoneRow /\ Len(table_data[r]) >= 2

(***************************************************************************)
(* Properties of _preprocess_text and of the chunks of a page              *)
(***************************************************************************)
\* a page went through _preprocess_text, and its text holds no break marker
\* of its own
PagePreprocessed ==
    /\ page_trace.text # <<>>
    /\ ~Contains(page_trace.text, SECTION_BREAK)

\* the text the header scan ran on: the preprocessed text without the markers
ScannedText == Replace(page_trace.pre, SECTION_BREAK, <<>>)

\* the positions of ScannedText before which a marker was inserted
MarkedPositions ==
    LET occ == SortedSeq(Occurrences(page_trace.pre, SECTION_BREAK))
    IN  {occ[k] - (k - 1) * Len(SECTION_BREAK) : k \in 1..Len(occ)}

\* the white space before position h reaches back to the start of the text,
\* or holds a blank line (two newlines)
AfterParagraphBreak(t, h) ==
    LET run == {k \in 1..(h - 1) : \A m \in k..(h - 1) : IsSpace(t[m])}
    IN  \/ 1 \in run \/ h = 1
        \/ Cardinality({k \in run : t[k] = "\n"}) >= 2

\* the section headers of a text that start the text or follow a paragraph
\* break: keyword, dotted numeric label and title stand at h
ParagraphHeaders(t) ==
    {h \in Occurrences(t, KEYWORD_EN) \cup Occurrences(t, KEYWORD_HI) :
        HeaderEnd(t, h) # 0 /\ AfterParagraphBreak(t, h)}

\* C21: a break marker stands immediately before a section header if and only
\* if the header starts the text or follows a paragraph break; no marker is
\* inserted anywhere else, and none twice.
C21_MarkerIffHeaderAfterParagraphBreak ==
    PagePreprocessed =>
        /\ MarkedPositions = ParagraphHeaders(ScannedText)
        /\ Cardinality(Occurrences(page_trace.pre, SECTION_BREAK))
               = Cardinality(MarkedPositions)

\* the whole preprocessed text has gone through _postprocess_chunks
PostprocessedWhole == pc = "postprocess_done"

\* the input of _preprocess_text, trimmed, as the list _postprocess_chunks returns
InputTrimmed ==
    IF Strip(page_trace.text) = <<>> THEN <<>> ELSE <<Strip(page_trace.text)>>

\* C22: preprocessing is lossless: _postprocess_chunks applied to the whole
\* preprocessed text as one chunk returns the input of _preprocess_text, trimmed
C22_PostprocessOfPreprocessIsInputTrimmed ==
    PostprocessedWhole => page_trace.clean = InputTrimmed

\* _preprocess_text has returned
PreprocessReturnedPair == pc = "preprocess_done"

\* the text with its k-th table envelope replaced by the k-th token of the map
TokensInPlace(t, spans, map) ==
    LET piece(k) == SubSeq(t, IF k = 1 THEN 1 ELSE spans[k - 1][2] + 1, spans[k][1] - 1)
                        \o map[k][1]
        last == IF spans = <<>> THEN 1 ELSE spans[Len(spans)][2] + 1
    IN  Concat([k \in 1..Len(spans) |-> piece(k)]) \o SubSeq(t, last, Len(t))

\* C23: after preprocessing a text with k table envelopes the placeholder map
\* has exactly k entries with pairwise distinct tokens, the k-th token maps to
\* exactly the k-th envelope and occurs exactly once in the preprocessed text,
\* in the place of that envelope, and no table start or end marker remains
C23_PlaceholderMapIsBijection ==
    PreprocessReturnedPair =>
        LET spans == TableSpans(page_trace.text)
            map == page_trace.map
        IN  /\ Len(map) = Len(spans)
            /\ \A i, j \in 1..Len(map) : i # j => map[i][1] # map[j][1]
            /\ \A k \in 1..Len(map) :
                  /\ map[k][2] = SubSeq(page_trace.text, spans[k][1], spans[k][2])
                  /\ Cardinality(Occurrences(page_trace.pre, map[k][1])) = 1
            /\ Replace(page_trace.pre, SECTION_BREAK, <<>>)
                   = Replace(TokensInPlace(page_trace.text, spans, map), SECTION_BREAK, <<>>)
            /\ ~Contains(page_trace.pre, TABLE_START)
            /\ ~Contains(page_trace.pre, TABLE_END)

\* the records of page p, in output order
PageRecords(p) == SelectSeq(all_final_chunks, LAMBDA c : c.metadata.page_number = p)

PagesWithRecords == {all_final_chunks[k].metadata.page_number : k \in 1..Len(all_final_chunks)}

\* C24: the m records of a page carry the indices 1..m in output order, and
\* each carries m as the number of chunks on its page
C24_IndicesOnPageAreOneToM ==
    \A p \in PagesWithRecords :
        LET rs == PageRecords(p)
        IN  \A i \in 1..Len(rs) :
                /\ rs[i].metadata.chunk_index_on_page = i
                /\ rs[i].metadata.total_chunks_on_page = Len(rs)

\* chunk_text has returned records of two pages, the later page with several
C24_Witness ==
    /\ pc = "chunk_done"
    /\ \E p, q \in PagesWithRecords : p < q /\ Len(PageRecords(q)) >= 2

\* C25: every record process_pdf gets from chunk_text carries the number of
\* pages of the PDF as its total page count, also when extraction skipped or
\* lost some of the pages
C25_TotalPagesIsPdfPageCount ==
    ChunkTextReturned =>
        \A k \in 1..Len(all_final_chunks) :
            all_final_chunks[k].metadata.total_document_pages = pdf.num_pages

\* C26 as stated: every chunk chunk_text returns is neither empty nor all white
\* space and is at most 1.2 * CHUNK_SIZE characters long, for any page text
C26_ChunksNonEmptyAndWithinBudget ==
    \A k \in 1..Len(all_final_chunks) :
        LET text == all_final_chunks[k].text
        IN  /\ text # <<>> /\ ~AllSpace(text)
            /\ 10 * Len(text) <= 12 * CHUNK_SIZE

\* chunk_text has chunked the page of page_trace
PageChunked == page_trace.text # <<>> /\ ~AllSpace(page_trace.text)

\* C26, amended: every chunk of a page is neither empty nor all white space;
\* every raw chunk of the splitter is at most CHUNK_SIZE characters long, and
\* on a page without table envelopes so is every chunk returned
C26_ChunksNonEmptyAndRawWithinBudget ==
    PageChunked =>
        /\ \A i \in 1..Len(page_trace.clean) :
              /\ page_trace.clean[i] # <<>> /\ ~AllSpace(page_trace.clean[i])
              /\ page_trace.map = <<>> => Len(page_trace.clean[i]) <= CHUNK_SIZE
        /\ \A i \in 1..Len(page_trace.raw) :
              page_trace.raw[i][2] - page_trace.raw[i][1] + 1 <= CHUNK_SIZE

\* a page without tables went into several chunks, one of them at the budget
C26_Witness ==
    /\ PageChunked
    /\ page_trace.map = <<>>
    /\ Len(page_trace.clean) >= 2
    /\ \E i \in 1..Len(page_trace.clean) : Len(page_trace.clean[i]) = CHUNK_SIZE

\* the header texts combined_pattern detects in the text it scans
DetectedHeaders ==
    LET hs == HeaderStarts(ScannedText)
    IN  {SubSeq(ScannedText, hs[k], HeaderEnd(ScannedText, hs[k]) - 1) : k \in 1..Len(hs)}

\* C27: the full text of every detected section header lies contiguous inside
\* a single chunk of its page
C27_HeaderInOneChunk ==
    PagePreprocessed =>
        \A header \in DetectedHeaders :
            \E i \in 1..Len(page_trace.clean) : Contains(page_trace.clean[i], header)

\* the characters two consecutive raw chunks of the page share
SharedWithNext(i) == page_trace.raw[i][2] - page_trace.raw[i + 1][1] + 1

ScenarioCPages == {ScenarioCPlain, ScenarioCParagraphs}

\* C28 as stated: a page of one header and 1800 body characters gives exactly
\* 2 chunks, and the two share about 250 characters
C28_ScenarioCTwoChunks ==
    page_trace.text \in ScenarioCPages =>
        /\ Len(page_trace.clean) = 2
        /\ SharedWithNext(1) \in 200..300

\* C28, amended: with a body of 1800 characters without a separator the page
\* gives 4 chunks, the header and three chunks of the body, consecutive body
\* chunks sharing exactly CHUNK_OVERLAP characters; with a body of two
\* paragraphs of 899 characters it gives exactly 2 chunks that share nothing
C28_ScenarioCFourChunksOrNoOverlap ==
    /\ page_trace.text = ScenarioCPlain =>
          /\ Len(page_trace.clean) = 4
          /\ page_trace.clean[1] = Strip(HeaderText)
          /\ SharedWithNext(1) <= 0
          /\ SharedWithNext(2) = CHUNK_OVERLAP
          /\ SharedWithNext(3) = CHUNK_OVERLAP
    /\ page_trace.text = ScenarioCParagraphs =>
          /\ Len(page_trace.clean) = 2
          /\ SharedWithNext(1) <= 0

\* chunk_text has chunked the page with the body without separators
C28_Witness ==
    /\ page_trace.text = ScenarioCPlain
    /\ Len(all_final_chunks) = 4

(***************************************************************************)
(* Properties of the collaborator calls and of the table significance      *)
(***************************************************************************)
\* the calls one page can get, in the order the claim gives
CallOrder == <<"extract_text", "extract_tables", "to_image", "image_to_string">>

IsPrefix(a, b) == Len(a) <= Len(b) /\ a = SubSeq(b, 1, Len(a))

\* a collaborator call of the page failed in this step
CallFailed ==
    /\ last_page' # last_page
    /\ (last_page'.status = "failed" \/ last_page'.ocr = "raised")

\* C29: for one page the collaborators are called in the order direct text,
\* tables, rendering, recognition, each at most once and none before the ones
\* ahead of it; a page that ends without a failure has had its text and its
\* tables read, and OCR exactly when the arbiter chose it; a page is entered
\* once, and after a failed call the loop is at the next page, so that no
\* collaborator is called for the page again
C29_CollaboratorsOnceInOrder ==
    [][ /\ IsPrefix(calls', CallOrder)
        /\ calls' # calls =>
              IF pc = "page_text"
              THEN /\ calls' = <<"extract_text">>
                   /\ \A k \in 1..Len(page_log) : page_log[k].page_num < page_num
              ELSE Len(calls') > Len(calls) /\ IsPrefix(calls, calls') /\ page_num' >= page_num
        /\ page_num' # page_num => page_num' = page_num + 1
        /\ (last_page' # last_page /\ last_page'.status # "failed") =>
              /\ IsPrefix(<<"extract_text", "extract_tables">>, calls')
              /\ Len(calls') > 2 <=> last_page'.use_ocr
        /\ CallFailed =>
              /\ page_num' = page_num + 1
              /\ pc' \in {"page_text", "extract_return"}
              /\ page_log' = Append(page_log, [page_num |-> page_num, status |-> last_page'.status])
      ]_vars

\* the rendering of a page failed after its text and its tables were read
C29_Witness ==
    /\ last_page.ocr = "raised"
    /\ calls = <<"extract_text", "extract_tables", "to_image">>

\* table k of the page in last_page formats to a non-empty text
FormatsNonEmpty(k) ==
    FormatTable(last_page.grids[k], TableContext(last_page.page_num, k)) # <<>>

\* the rows of all raw grids of the page, added up
RawRowsOfPage == Len(Concat(last_page.grids))

\* C30: on a page whose direct text is below the threshold the arbiter keeps
\* the direct path exactly when one single table both formats to a non-empty
\* text and has MIN_TABLE_ROWS_FOR_SIGNIFICANCE rows in its raw grid, None and
\* blank rows counted; several tables with fewer rows each never count together
C30_SignificancePerTableOnRawGrid ==
    (PageDone /\ Len(last_page.direct) < MIN_TEXT_LENGTH_FOR_OCR_FALLBACK) =>
        /\ ~last_page.use_ocr <=>
              \E k \in 1..Len(last_page.grids) :
                  /\ FormatsNonEmpty(k)
                  /\ Len(last_page.grids[k]) >= MIN_TABLE_ROWS_FOR_SIGNIFICANCE
        /\ (\A k \in 1..Len(last_page.grids) :
               Len(last_page.grids[k]) < MIN_TABLE_ROWS_FOR_SIGNIFICANCE) => last_page.use_ocr

\* a page with two tables of one row each, both formatted, went to OCR
C30_Witness ==
    /\ PageDone
    /\ Len(last_page.grids) = 2
    /\ FormatsNonEmpty(1) /\ FormatsNonEmpty(2)
    /\ RawRowsOfPage >= MIN_TABLE_ROWS_FOR_SIGNIFICANCE
    /\ last_page.use_ocr

====
